---- MODULE Spec2Model ----
(***************************************************************************)
(* r.learn.parallel.predict and r.learn.predict.worker as a state machine. *)
(*                                                                         *)
(* The parent (r.learn.parallel.predict main) is one sequential process,   *)
(* whose position is pc; each worker (r.learn.predict.worker main) is an   *)
(* operating-system process started by the module queue, whose position is *)
(* proc[cat].  The GRASS database is the shared state: the vectors and     *)
(* rasters of the parent's mapset, the temporary mapsets, the rasters in   *)
(* them, the session files (GISRC) and the region of every mapset.         *)
(*                                                                         *)
(* Names are modelled by what the format strings build: "%s_%s" %          *)
(* (output, cat) is the pair <<output, cat>>, "name@mapset" is the pair    *)
(* <<name, mapset>> and split("@") its two components.                     *)
(***************************************************************************)
EXTENDS Integers, Sequences, FiniteSets, TLC

\* ------------------------------------------------------------------ bounds
\* Largest explicit value of the nprocs option.
MaxProcs == 2
\* Largest number of CPUs mp.cpu_count() reports.
MaxCpu == 3
\* Largest number of rows / columns of an explicit grid option.
MaxRows == 2
MaxCols == 2

VARIABLES
    options,          \* parsed options: the number of processes under the key the
                      \* parser gives it, and grid, <<>> when not given
    flags,            \* parsed flags: the set of flags that are set, of p, z, v
    pc,               \* position of the parent process in main
    n_jobs,           \* main's n_jobs
    flags_str,        \* main's flags_str, a sequence of flag letters
    grid_rows_cols,   \* main's grid_rows_cols, <<rows, cols>>
    cats,             \* main's cats, the categories of the grid cells
    start_cur_mapset, \* main's start_cur_mapset
    idx,              \* position of the running for loop (dispatch, copy, cleanup)
    queue,            \* ParallelModuleQueue: the started modules not yet waited for
    classifications,  \* main's classifications, pairs <<tmp_output, new_mapset>>
    proc,             \* state of the worker process of each cat
    gisrc,            \* MAPSET of the parent's session file
    wgisrc,           \* MAPSET of each worker's private session file, NoMapset if no file
    wind,             \* region of every mapset
    mapsets,          \* temporary mapsets that exist in the location
    wrasters,         \* rasters in temporary mapsets, pairs <<name, mapset>>
    vectors,          \* vector maps in the parent's mapset
    rasters,          \* raster maps in the parent's mapset
    rm_vectors,       \* global rm_vectors
    rm_rasters,       \* global rm_rasters
    calls,            \* the run_command calls of the parent that succeeded, in order
    exit_code         \* exit status of the parent, -1 while it runs

vars == <<options, flags, pc, n_jobs, flags_str, grid_rows_cols, cats,
          start_cur_mapset, idx, queue, classifications, proc, gisrc,
          wgisrc, wind, mapsets, wrasters, vectors, rasters, rm_vectors,
          rm_rasters, calls, exit_code>>

\* ------------------------------------------------------------ names, helpers
\* options["output"]
output == "out"

\* the name of the final raster map
OutputMap == <<output>>

\* os.getpid() of the parent, part of the grid's name
ParentPid == 1

\* grid = "tmp_grid_%s" % os.getpid()
grid == <<"tmp_grid", ParentPid>>

\* new_mapset = "tmp_mapset_rlearnpredict_%s" % cat
new_mapset(cat) == <<"tmp_mapset_rlearnpredict", cat>>

\* tmp_output = "%s_%s" % (output, cat)
tmp_output(cat) == <<output, cat>>

\* the mapset the parent is started in, and the one a foreign g.mapset selects
UserMapset == <<"user1", 0>>
OtherMapset == <<"user2", 0>>
NoMapset == <<"", 0>>

\* regions: the one of the user's mapsets, the one a new mapset starts with, and
\* the one g.region sets from the cell of the grid (grown by one cell)
FullRegion == <<"full", 0>>
NoRegion == <<"none", 0>>
DefaultRegion == <<"default", 0>>
CellRegion(cat) == <<"cell", cat>>

\* the largest number of cells a grid of this model has
MaxCells == IF MaxProcs * MaxProcs > MaxRows * MaxCols
            THEN MaxProcs * MaxProcs ELSE MaxRows * MaxCols

Cats == 1 .. MaxCells

AllMapsets == {UserMapset, OtherMapset} \cup {new_mapset(c) : c \in Cats}

\* the flags in the order the parser declares them
FlagOrder == <<"p", "z", "v">>

Range(s) == {s[i] : i \in 1 .. Len(s)}

RECURSIVE SeqFrom(_, _)
\* the sequence lo, lo+1, ..., hi
SeqFrom(lo, hi) == IF lo > hi THEN <<>> ELSE <<lo>> \o SeqFrom(lo + 1, hi)

\* ------------------------------------------------------------ pure functions
\* set_test_nprocs: -2 is n_cores - 1, any other value is returned as it is
set_test_nprocs(nprocs, nprocs_real) ==
    IF nprocs = -2 THEN nprocs_real - 1 ELSE nprocs

\* flags_str: every set flag but v, in the parser's order
FlagsStr(fl) ==
    LET keep(f) == f \in fl /\ f # "v"
    IN  SelectSeq(FlagOrder, keep)

\* GridRowsCols that ignores the grid option
GridRowsColsSquare(opt, n) == <<n, n>>

\* grid_rows_cols: the grid option, or "%d,%d" % (n_jobs, n_jobs)
GridRowsCols(opt, n) == IF opt # <<>> THEN opt ELSE <<n, n>>

\* v.category option=print on the grid of v.mkgrid: one category per cell,
\* numbered from 1 in the order the cells are written
GridCats(rc) == SeqFrom(1, rc[1] * rc[2])

\* Parallel with the comparison off by one
ParallelFromOne(n) == n >= 1

\* the if of line 183 that selects the parallel path
Parallel(n) == n > 1

\* QueueFull with the comparison off by one
QueueFullLate(q, n) == Len(q) = n + 1

\* ParallelModuleQueue.put: the queue waits as soon as nprocs modules run
QueueFull(q, n) == Len(q) = n

\* a worker process that has ended
Ended(st) == st \in {"ok", "failed"}

\* a worker process that is running
Active(st) == st \in {"started", "allocated", "verified"}

\* ---------------------------------------------------------------- Init
\* the values of the option of lines 82-87: its default -2 and explicit ones
NprocsValues == {-2} \cup (-1 .. MaxProcs)

\* the values of the option grid, lines 89-96: not given, or rows,columns
GridValues == {<<>>} \cup ((0 .. MaxRows) \X (0 .. MaxCols))

\* The key under which grass.parser() stores the standard option
\* G_OPT_M_NPROCS is the library's: both the key main reads and the option's
\* standard name are drawn.
Init ==
    /\ options \in [nprocs : NprocsValues, grid : GridValues]
                    \cup [n_jobs : NprocsValues, grid : GridValues]
    /\ flags \in SUBSET {"p", "z", "v"}
    /\ pc = "main"
    /\ n_jobs = 0
    /\ flags_str = <<>>
    /\ grid_rows_cols = <<0, 0>>
    /\ cats = <<>>
    /\ start_cur_mapset = NoMapset
    /\ idx = 1
    /\ queue = <<>>
    /\ classifications = <<>>
    /\ proc = [c \in Cats |-> "none"]
    /\ gisrc = UserMapset
    /\ wgisrc = [c \in Cats |-> NoMapset]
    /\ wind = [m \in AllMapsets |-> IF m \in {UserMapset, OtherMapset}
                                     THEN FullRegion ELSE NoRegion]
    /\ mapsets = {}
    /\ wrasters = {}
    /\ vectors = {}
    /\ rasters = {}
    /\ rm_vectors = <<>>
    /\ rm_rasters = <<>>
    /\ calls = <<>>
    /\ exit_code = -1

\* an exit that does not run the atexit handlers
AbortNoSweep ==
    /\ pc' = "exited"
    /\ idx' = 1
    /\ exit_code' = 1

\* ------------------------------------------------------- parent: starting
\* an uncaught exception or grass.fatal: the interpreter exits with status 1
\* and runs the atexit handler
Abort ==
    /\ pc' = "cleanup"
    /\ idx' = 1
    /\ exit_code' = 1

\* sys.exit(main()) after return 0
Return0 ==
    /\ pc' = "cleanup"
    /\ idx' = 1
    /\ exit_code' = 0

\* lines 147-162: n_jobs, flags_str, grid_rows_cols. options["n_jobs"] raises
\* KeyError if the parser has stored the option under another key.
ParseOptions ==
    /\ pc = "main"
    /\ IF "n_jobs" \in DOMAIN options
       THEN /\ \E nprocs_real \in 1 .. MaxCpu :
                  n_jobs' = set_test_nprocs(options["n_jobs"], nprocs_real)
            /\ flags_str' = FlagsStr(flags)
            /\ grid_rows_cols' = GridRowsCols(options["grid"], n_jobs')
            /\ pc' = "find_program"
            /\ UNCHANGED <<idx, exit_code>>
       ELSE /\ Abort
            /\ UNCHANGED <<n_jobs, flags_str, grid_rows_cols>>
    /\ UNCHANGED <<options, flags, cats, start_cur_mapset, queue,
                   classifications, proc, gisrc, wgisrc, wind, mapsets, wrasters,
                   vectors, rasters, rm_vectors, rm_rasters, calls>>

\* lines 174-183: fatal if r.learn.predict is not installed, else the branch
FindProgram ==
    /\ pc = "find_program"
    /\ \E found \in BOOLEAN :
          IF found
          THEN /\ pc' = IF Parallel(n_jobs) THEN "mkgrid" ELSE "predict"
               /\ UNCHANGED <<idx, exit_code>>
          ELSE Abort
    /\ UNCHANGED <<options, flags, n_jobs, flags_str, grid_rows_cols, cats,
                   start_cur_mapset, queue, classifications, proc, gisrc, wgisrc,
                   wind, mapsets, wrasters, vectors, rasters, rm_vectors,
                   rm_rasters, calls>>

\* the call of r.learn.predict of the direct path
DirectCall ==
    [module |-> "r.learn.predict", input |-> <<>>, output |-> OutputMap,
     flags |-> flags_str, region |-> wind[gisrc]]

\* lines 259-267: the direct path, one call of r.learn.predict
DirectPredict ==
    /\ pc = "predict"
    /\ \E ok \in BOOLEAN :
          IF ok
          THEN /\ calls' = Append(calls, DirectCall)
               /\ rasters' = rasters \cup {OutputMap}
               /\ Return0
          ELSE /\ Abort
               /\ UNCHANGED <<calls, rasters>>
    /\ UNCHANGED <<options, flags, n_jobs, flags_str, grid_rows_cols, cats,
                   start_cur_mapset, queue, classifications, proc, gisrc, wgisrc,
                   wind, mapsets, wrasters, vectors, rm_vectors, rm_rasters>>

\* lines 184-202: v.mkgrid, rm_vectors, cats, start_cur_mapset, the queue.
\* v.mkgrid may fail; on a grid without rows or columns it fails or makes a
\* vector map without cells.
MkGrid ==
    /\ pc = "mkgrid"
    /\ \E ok \in BOOLEAN :
          IF ok
          THEN /\ vectors' = vectors \cup {grid}
               /\ rm_vectors' = Append(rm_vectors, grid)
               /\ calls' = Append(calls,
                     [module |-> "v.mkgrid", input |-> grid_rows_cols,
                      output |-> grid, flags |-> <<>>, region |-> wind[gisrc]])
               /\ cats' = GridCats(grid_rows_cols)
               /\ start_cur_mapset' = gisrc
               /\ queue' = <<>>
               /\ classifications' = <<>>
               /\ pc' = "put"
               /\ idx' = 1
               /\ UNCHANGED exit_code
          ELSE /\ Abort
               /\ UNCHANGED <<vectors, rm_vectors, calls, cats, start_cur_mapset,
                              queue, classifications>>
    /\ UNCHANGED <<options, flags, n_jobs, flags_str, grid_rows_cols, proc, gisrc,
                   wgisrc, wind, mapsets, wrasters, rasters, rm_rasters>>

\* --------------------------------------------------- parent: the module queue
\* lines 203-221: one pass of the for loop over cats: the names, the Module,
\* classifications.append and queue.put, which starts the worker process and
\* waits for the whole queue once nprocs modules have been put
Put ==
    /\ pc = "put"
    /\ idx <= Len(cats)
    /\ LET cat == cats[idx]
       IN  /\ classifications' =
                 Append(classifications, <<tmp_output(cat), new_mapset(cat)>>)
           /\ proc' = [proc EXCEPT ![cat] = "started"]
           /\ queue' = Append(queue, cat)
    /\ idx' = idx + 1
    /\ pc' = IF QueueFull(queue', n_jobs) THEN "put_wait" ELSE "put"
    /\ UNCHANGED <<options, flags, n_jobs, flags_str, grid_rows_cols, cats,
                   start_cur_mapset, gisrc, wgisrc, wind, mapsets, wrasters,
                   vectors, rasters, rm_vectors, rm_rasters, calls, exit_code>>

\* NeedsWait for a dispatch loop that is not followed by queue.wait()
NeedsWaitNever(q) == FALSE

\* ParallelModuleQueue.wait has a module to wait for
NeedsWait(q) == q # <<>>

\* line 222: queue.wait() after the loop; it returns at once on an empty queue
EndDispatch ==
    /\ pc = "put"
    /\ idx > Len(cats)
    /\ pc' = IF NeedsWait(queue) THEN "wait" ELSE "verify"
    /\ UNCHANGED <<options, flags, n_jobs, flags_str, grid_rows_cols, cats,
                   start_cur_mapset, idx, queue, classifications, proc, gisrc,
                   wgisrc, wind, mapsets, wrasters, vectors, rasters, rm_vectors,
                   rm_rasters, calls, exit_code>>

\* where the parent continues when ParallelModuleQueue.wait returns
AfterWait(at) == IF at = "put_wait" THEN "put" ELSE "verify"

\* Raises for a wait that ignores the status of the process
RaisesNever(st) == FALSE

\* Module.wait raises CalledModuleError for a process that ended with an error
Raises(st) == st = "failed"

\* ParallelModuleQueue.wait, one pass of its loop: Module.wait blocks until the
\* first module of the queue has ended and raises CalledModuleError if it ended
\* with a non-zero status; nothing catches it. After the last module the queue is
\* empty again and wait returns.
QueueWait ==
    /\ pc \in {"put_wait", "wait"}
    /\ queue # <<>>
    /\ Ended(proc[Head(queue)])
    /\ IF Raises(proc[Head(queue)])
       THEN /\ Abort
            /\ UNCHANGED queue
       ELSE /\ queue' = Tail(queue)
            /\ pc' = IF queue' = <<>> THEN AfterWait(pc) ELSE pc
            /\ UNCHANGED <<idx, exit_code>>
    /\ UNCHANGED <<options, flags, n_jobs, flags_str, grid_rows_cols, cats,
                   start_cur_mapset, classifications, proc, gisrc, wgisrc, wind,
                   mapsets, wrasters, vectors, rasters, rm_vectors, rm_rasters,
                   calls>>

\* ------------------------------------------------------------------ worker
\* the rasters of temporary mapsets that are left when mapset m is removed
WithoutMapset(rs, m) == {r \in rs : r[2] # m}

\* os.getpid() of the worker of a cell: the processes of one session that are
\* alive at the same time have different pids
WorkerPid(c) == ParentPid + c

\* os.environ["GISRC"] as the parent and a starting worker have it
ParentGisrc == <<"gisrc">>

\* newgisrc for a worker that selects its mapset in the session file it was
\* started with
newgisrcShared(c) == ParentGisrc

\* worker line 171: newgisrc = "%s_%s" % (gisrc, str(os.getpid()))
newgisrc(c) == <<"gisrc", WorkerPid(c)>>

\* worker lines 159-177: v.db.select on the cell, try_rmdir of the mapset's
\* directory, the copy of the session file under the name newgisrc, which
\* becomes the worker's GISRC, and g.mapset -c.
\* removed is what try_rmdir does to an existing directory: it removes it, or
\* leaves it without an error. sw is what g.mapset does: "ok" selects the
\* mapset, creating it if it does not exist, "fail" ends with an error,
\* "noswitch" creates it and returns without having selected it.
WorkerAllocate(c, sw, removed) ==
    /\ proc[c] = "started"
    /\ IF grid \notin vectors
       THEN /\ proc' = [proc EXCEPT ![c] = "failed"]
            /\ UNCHANGED <<mapsets, wrasters, gisrc, wgisrc, wind>>
       ELSE LET m == new_mapset(c)
                left == IF removed THEN mapsets \ {m} ELSE mapsets
                selected == IF sw = "ok" THEN m ELSE gisrc
            IN  /\ proc' = [proc EXCEPT ![c] =
                               IF sw = "fail" THEN "failed" ELSE "allocated"]
                /\ wrasters' = IF removed THEN WithoutMapset(wrasters, m)
                               ELSE wrasters
                /\ mapsets' = IF sw = "fail" THEN left ELSE left \cup {m}
                /\ wind' = IF sw # "fail" /\ m \notin left
                           THEN [wind EXCEPT ![m] = DefaultRegion] ELSE wind
                /\ wgisrc' = [wgisrc EXCEPT ![c] = selected]
                /\ gisrc' = IF newgisrc(c) = ParentGisrc THEN selected ELSE gisrc
    /\ UNCHANGED <<options, flags, pc, n_jobs, flags_str, grid_rows_cols, cats,
                   start_cur_mapset, idx, queue, classifications, vectors,
                   rasters, rm_vectors, rm_rasters, calls, exit_code>>

\* SwitchFailed for a worker that does not compare the names
SwitchFailedNever(cur_mapset, requested) == FALSE

\* worker line 181: the session's mapset is not the requested one
SwitchFailed(cur_mapset, requested) == cur_mapset # requested

\* worker lines 180-182: fatal unless the session's mapset is the new one
WorkerVerify(c) ==
    /\ proc[c] = "allocated"
    /\ proc' = [proc EXCEPT ![c] =
                   IF SwitchFailed(wgisrc[c], new_mapset(c))
                   THEN "failed" ELSE "verified"]
    /\ UNCHANGED <<options, flags, pc, n_jobs, flags_str, grid_rows_cols, cats,
                   start_cur_mapset, idx, queue, classifications, gisrc, wgisrc,
                   wind, mapsets, wrasters, vectors, rasters, rm_vectors,
                   rm_rasters, calls, exit_code>>

\* lines 207-219: the flags the parent gives the Module of a worker: the call
\* has no flags argument
ModuleFlags == {}

\* worker lines 143-146: flags_str of the worker, every flag it was given
WorkerFlagsStr(fl) ==
    LET given(f) == f \in fl
    IN  SelectSeq(<<"p", "z">>, given)

\* worker lines 191-199: the call of r.learn.predict for a cell
WorkerCall(c) ==
    [module |-> "r.learn.predict", input |-> <<>>, output |-> tmp_output(c),
     flags |-> WorkerFlagsStr(ModuleFlags), region |-> CellRegion(c)]

\* worker lines 184-203: g.region on the cell in the session's mapset, g.copy
\* of the group, r.learn.predict, try_remove of the private session file.
\* A failing command ends the worker with a non-zero status.
WorkerPredict(c, ok) ==
    /\ proc[c] = "verified"
    /\ wind' = [wind EXCEPT ![wgisrc[c]] = CellRegion(c)]
    /\ IF ok
       THEN /\ wrasters' = wrasters \cup {<<tmp_output(c), wgisrc[c]>>}
            /\ wgisrc' = [wgisrc EXCEPT ![c] = NoMapset]
            /\ proc' = [proc EXCEPT ![c] = "ok"]
       ELSE /\ proc' = [proc EXCEPT ![c] = "failed"]
            /\ UNCHANGED <<wrasters, wgisrc>>
    /\ UNCHANGED <<options, flags, pc, n_jobs, flags_str, grid_rows_cols, cats,
                   start_cur_mapset, idx, queue, classifications, gisrc, mapsets,
                   vectors, rasters, rm_vectors, rm_rasters, calls, exit_code>>

\* ---------------------------------------------------- the parent's session
\* Another process of the user's session selects another mapset in the
\* parent's session file while the workers run: the change that the
\* comparison of lines 225-232 looks for.
ForeignMapsetSwitch ==
    /\ pc \in {"put", "put_wait", "wait"}
    /\ gisrc = UserMapset
    /\ gisrc' = OtherMapset
    /\ UNCHANGED <<options, flags, pc, n_jobs, flags_str, grid_rows_cols, cats,
                   start_cur_mapset, idx, queue, classifications, proc, wgisrc,
                   wind, mapsets, wrasters, vectors, rasters, rm_vectors,
                   rm_rasters, calls, exit_code>>

\* MapsetChanged for a comparison that is never true
MapsetChangedNever(cur_mapset, start) == FALSE

\* the comparison of line 229
MapsetChanged(cur_mapset, start) == cur_mapset # start

\* lines 225-232: fatal if the parent's mapset is not the one saved in line 199
VerifyMapset ==
    /\ pc = "verify"
    /\ IF MapsetChanged(gisrc, start_cur_mapset)
       THEN Abort
       ELSE /\ pc' = IF classifications = <<>> THEN "patch" ELSE "copy"
            /\ idx' = 1
            /\ UNCHANGED exit_code
    /\ UNCHANGED <<options, flags, n_jobs, flags_str, grid_rows_cols, cats,
                   start_cur_mapset, queue, classifications, proc, gisrc, wgisrc,
                   wind, mapsets, wrasters, vectors, rasters, rm_vectors,
                   rm_rasters, calls>>

\* ------------------------------------------------------ parent: the merge
\* x.split("@") of a classification: name_mapset[0] and name_mapset[1]
SplitName(classification) == classification[1]
SplitMapset(classification) == classification[2]

\* lines 234-239, one pass of the loop: g.copy of the tile into the parent's
\* mapset, then try_rmdir of the worker's mapset. g.copy fails if the tile is
\* not in that mapset, and may fail for any other reason; try_rmdir ignores
\* its errors, so the mapset is removed or silently left.
CopyTile ==
    /\ pc = "copy"
    /\ idx <= Len(classifications)
    /\ LET classification == classifications[idx]
           name == SplitName(classification)
           mapset == SplitMapset(classification)
       IN  \E ok, removed \in BOOLEAN :
              IF ok /\ classification \in wrasters
              THEN /\ rasters' = rasters \cup {name}
                   /\ calls' = Append(calls,
                         [module |-> "g.copy", input |-> <<classification>>,
                          output |-> name, flags |-> <<>>,
                          region |-> wind[gisrc]])
                   /\ mapsets' = IF removed THEN mapsets \ {mapset} ELSE mapsets
                   /\ wrasters' = IF removed THEN WithoutMapset(wrasters, mapset)
                                   ELSE wrasters
                   /\ idx' = idx + 1
                   /\ pc' = IF idx' > Len(classifications) THEN "patch" ELSE "copy"
                   /\ UNCHANGED exit_code
              ELSE /\ Abort
                   /\ UNCHANGED <<rasters, calls, mapsets, wrasters>>
    /\ UNCHANGED <<options, flags, n_jobs, flags_str, grid_rows_cols, cats,
                   start_cur_mapset, queue, classifications, proc, gisrc, wgisrc,
                   wind, vectors, rm_vectors, rm_rasters>>

\* UseCombine with the comparison off by one
UseCombineFromOne(cls) == Len(cls) >= 1

\* line 245: more than one tile is combined, one tile is copied
UseCombine(cls) == Len(cls) > 1

\* lines 246-248: r.patch, or r.buildvrt with flag v
CombineModule(fl) == IF "v" \in fl THEN "r.buildvrt" ELSE "r.patch"

\* AllClassified in the opposite order
AllClassifiedReversed(cls) ==
    [i \in 1 .. Len(cls) |-> SplitName(cls[Len(cls) + 1 - i])]

\* line 249: all_classified = [x.split("@")[0] for x in classifications]
AllClassified(cls) == [i \in 1 .. Len(cls) |-> SplitName(cls[i])]

\* TrackTiles that does not look at the flag
TrackTilesAlways(fl) == TRUE

\* line 251: the tiles are entered in rm_rasters unless flag v is set
TrackTiles(fl) == "v" \notin fl

\* line 254: indexing an empty list raises IndexError
FirstTileRaises(cls) == Len(cls) = 0

\* IndexErrorExit for a merge that returns 0 when there is no tile
IndexErrorSkipped ==
    /\ Return0
    /\ UNCHANGED <<calls, rasters, rm_rasters>>

\* line 254 on an empty list: the IndexError ends main before g.copy
IndexErrorExit ==
    /\ Abort
    /\ UNCHANGED <<calls, rasters, rm_rasters>>

\* lines 245-267: the combination of the tiles, or the copy of the only tile,
\* then return 0. A failing command and the IndexError end the process.
Patch ==
    /\ pc = "patch"
    /\ IF UseCombine(classifications)
       THEN \E ok \in BOOLEAN :
               IF ok
               THEN /\ calls' = Append(calls,
                          [module |-> CombineModule(flags),
                           input |-> AllClassified(classifications),
                           output |-> OutputMap, flags |-> <<>>,
                           region |-> wind[gisrc]])
                    /\ rasters' = rasters \cup {OutputMap}
                    /\ rm_rasters' = IF TrackTiles(flags)
                                     THEN rm_rasters \o AllClassified(classifications)
                                     ELSE rm_rasters
                    /\ Return0
               ELSE /\ Abort
                    /\ UNCHANGED <<calls, rasters, rm_rasters>>
       ELSE IF FirstTileRaises(classifications)
            THEN IndexErrorExit
            ELSE \E ok \in BOOLEAN :
                    IF ok
                    THEN /\ calls' = Append(calls,
                               [module |-> "g.copy",
                                input |-> <<AllClassified(classifications)[1]>>,
                                output |-> OutputMap, flags |-> <<>>,
                                region |-> wind[gisrc]])
                         /\ rasters' = rasters \cup {OutputMap}
                         /\ UNCHANGED rm_rasters
                         /\ Return0
                    ELSE /\ Abort
                         /\ UNCHANGED <<calls, rasters, rm_rasters>>
    /\ UNCHANGED <<options, flags, n_jobs, flags_str, grid_rows_cols, cats,
                   start_cur_mapset, queue, classifications, proc, gisrc, wgisrc,
                   wind, mapsets, wrasters, vectors, rm_vectors>>

\* ------------------------------------------------------ parent: the sweep
\* global rm_regions: nothing is ever appended to it
rm_regions == <<>>

\* the entries cleanup() visits, in its order: regions, vectors, rasters
CleanupList ==
    [i \in 1 .. Len(rm_regions) |-> [kind |-> "region", name |-> rm_regions[i]]]
    \o [i \in 1 .. Len(rm_vectors) |-> [kind |-> "vector", name |-> rm_vectors[i]]]
    \o [i \in 1 .. Len(rm_rasters) |-> [kind |-> "raster", name |-> rm_rasters[i]]]

\* g.list / grass.find_file: whether the entry is in the parent's mapset
Exists(e) ==
    CASE e.kind = "vector" -> e.name \in vectors
      [] e.kind = "raster" -> e.name \in rasters
      [] OTHER -> FALSE

\* cleanup(), the atexit handler, one pass of its loops: g.remove of the entry
\* if it exists. run_command raises CalledModuleError if g.remove fails, which
\* ends the handler. After the last entry the process has exited.
Cleanup ==
    /\ pc = "cleanup"
    /\ IF idx > Len(CleanupList)
       THEN /\ pc' = "exited"
            /\ UNCHANGED <<idx, vectors, rasters>>
       ELSE LET e == CleanupList[idx]
            IN  IF ~Exists(e)
                THEN /\ idx' = idx + 1
                     /\ UNCHANGED <<pc, vectors, rasters>>
                ELSE \E ok \in BOOLEAN :
                        IF ok
                        THEN /\ vectors' = IF e.kind = "vector"
                                           THEN vectors \ {e.name} ELSE vectors
                             /\ rasters' = IF e.kind = "raster"
                                           THEN rasters \ {e.name} ELSE rasters
                             /\ idx' = idx + 1
                             /\ UNCHANGED pc
                        ELSE /\ pc' = "exited"
                             /\ UNCHANGED <<idx, vectors, rasters>>
    /\ UNCHANGED <<options, flags, n_jobs, flags_str, grid_rows_cols, cats,
                   start_cur_mapset, queue, classifications, proc, gisrc, wgisrc,
                   wind, mapsets, wrasters, rm_vectors, rm_rasters, calls,
                   exit_code>>

\* --------------------------------------------------------------- the system
Worker ==
    \E c \in Cats :
       \/ \E sw \in {"ok", "fail", "noswitch"}, removed \in BOOLEAN :
             WorkerAllocate(c, sw, removed)
       \/ WorkerVerify(c)
       \/ \E ok \in BOOLEAN : WorkerPredict(c, ok)

Next ==
    \/ ParseOptions
    \/ FindProgram
    \/ DirectPredict
    \/ MkGrid
    \/ Put
    \/ EndDispatch
    \/ QueueWait
    \/ Worker
    \/ ForeignMapsetSwitch
    \/ VerifyMapset
    \/ CopyTile
    \/ Patch
    \/ Cleanup

Spec == Init /\ [][Next]_vars

\* ------------------------------------------- a mapset left by an earlier run
\* a raster an earlier run left in the mapset of cell 1
StaleMap == <<"stale", 1>>

\* the state after construction in a location where an earlier run that ended
\* before its copy loop has left the mapset of cell 1, with a raster in it
InitStale ==
    /\ options \in [nprocs : NprocsValues, grid : GridValues]
                    \cup [n_jobs : NprocsValues, grid : GridValues]
    /\ flags \in SUBSET {"p", "z", "v"}
    /\ pc = "main"
    /\ n_jobs = 0
    /\ flags_str = <<>>
    /\ grid_rows_cols = <<0, 0>>
    /\ cats = <<>>
    /\ start_cur_mapset = NoMapset
    /\ idx = 1
    /\ queue = <<>>
    /\ classifications = <<>>
    /\ proc = [c \in Cats |-> "none"]
    /\ gisrc = UserMapset
    /\ wgisrc = [c \in Cats |-> NoMapset]
    /\ wind = [m \in AllMapsets |-> IF m \in {UserMapset, OtherMapset}
                                     THEN FullRegion
                                     ELSE IF m = new_mapset(1)
                                          THEN CellRegion(1) ELSE NoRegion]
    /\ mapsets = {new_mapset(1)}
    /\ wrasters = {<<StaleMap, new_mapset(1)>>}
    /\ vectors = {}
    /\ rasters = {}
    /\ rm_vectors = <<>>
    /\ rm_rasters = <<>>
    /\ calls = <<>>
    /\ exit_code = -1

SpecStale == InitStale /\ [][Next]_vars

\* ------------------------------------- a second run in the same location
\* worker lines 168-177 in a worker of another run of the program, started in
\* the same location while this run dispatches and waits: try_rmdir of the
\* mapset of its cell and g.mapset -c, under the name line 204 gives the cell
OtherRunAllocate ==
    /\ pc \in {"put", "put_wait", "wait"}
    /\ \E c \in Cats :
          LET m == new_mapset(c)
          IN  /\ mapsets' = mapsets \cup {m}
              /\ wrasters' = WithoutMapset(wrasters, m)
              /\ wind' = [wind EXCEPT ![m] = DefaultRegion]
    /\ UNCHANGED <<options, flags, pc, n_jobs, flags_str, grid_rows_cols, cats,
                   start_cur_mapset, idx, queue, classifications, proc, gisrc,
                   wgisrc, vectors, rasters, rm_vectors, rm_rasters, calls,
                   exit_code>>

NextTwoRuns == Next \/ OtherRunAllocate

SpecTwoRuns == Init /\ [][NextTwoRuns]_vars

\* ================================================================== claims
\* the workers that are running
ActiveJobs == {c \in Cats : Active(proc[c])}

\* the workers that have failed
FailedJobs == {c \in Cats : proc[c] = "failed"}

\* the cats main has dispatched so far
Dispatched == {SplitMapset(classifications[i])[2] : i \in 1 .. Len(classifications)}

\* the calls of the parent with one of the given modules
CallsOf(modules) ==
    LET of(c) == c.module \in modules
    IN  SelectSeq(calls, of)

CombineCalls == CallsOf({"r.patch", "r.buildvrt"})

CopyCalls == CallsOf({"g.copy"})

\* the parent has taken the parallel path and has made the grid
GridMade == start_cur_mapset # NoMapset

\* the parent is past queue.wait() of line 222
PastDispatch == pc \in {"verify", "copy", "patch"} \/ (GridMade /\ exit_code = 0)

\* ------------------------------------------------------------------- C1
\* C1: on the parallel path, in every state the number of running worker
\* processes is at most n_jobs and at most the number of cells of the grid.
C1_BoundedActive ==
    Parallel(n_jobs) =>
        /\ Cardinality(ActiveJobs) <= n_jobs
        /\ Cardinality(ActiveJobs) <= Len(cats)

\* n_jobs workers run at once while more cells than n_jobs are to be done
C1_Witness ==
    /\ Parallel(n_jobs)
    /\ Cardinality(ActiveJobs) = n_jobs
    /\ Len(cats) > n_jobs

C2_NoCancel ==
    [][\A c \in Cats : (proc[c] # "none" /\ proc'[c] # proc[c]) =>
          (pc' = pc \/ (pc = "put" /\ c = cats[idx] /\ proc'[c] = "started"))]_vars

C2_AbortOnFailure ==
    [](FailedJobs # {} =>
          /\ pc \notin {"verify", "copy", "patch"}
          /\ exit_code # 0
          /\ CopyCalls = <<>>
          /\ CombineCalls = <<>>
          /\ OutputMap \notin rasters)

C2_AbortAtWait ==
    [][(pc \in {"put_wait", "wait"} /\ pc' # pc /\ FailedJobs # {}
        /\ queue # <<>> /\ proc[Head(queue)] = "failed") =>
          (pc' = "cleanup" /\ exit_code' = 1)]_vars

C3_ContextCheck ==
    /\ (GridMade /\ gisrc # start_cur_mapset) =>
          /\ pc \notin {"copy", "patch"}
          /\ exit_code # 0
          /\ CopyCalls = <<>>
          /\ CombineCalls = <<>>
          /\ OutputMap \notin rasters
          /\ \A c \in Dispatched :
                proc[c] = "ok" => /\ new_mapset(c) \in mapsets
                                  /\ <<tmp_output(c), new_mapset(c)>> \in wrasters
    /\ (pc \in {"copy", "patch"} \/ CopyCalls # <<>> \/ CombineCalls # <<>>) =>
          gisrc = start_cur_mapset

\* every worker succeeded, the mapset had changed, and the parent has exited
\* with status 1 after the comparison
C3_Witness ==
    /\ pc = "exited"
    /\ exit_code = 1
    /\ GridMade
    /\ gisrc # start_cur_mapset
    /\ Len(cats) >= 2
    /\ Len(classifications) = Len(cats)
    /\ \A i \in 1 .. Len(cats) : proc[cats[i]] = "ok"

\* ------------------------------------------------------------------- C4
\* C4: with n_jobs <= 1, with or without the grid option, no grid is made, no
\* mapset is created and no worker is started; the parent calls
\* r.learn.predict at most once, with the caller's output name and in the
\* unchanged region, and exactly once when it exits with status 0.
C4_DirectPath ==
    n_jobs <= 1 =>
        /\ vectors = {} /\ rm_vectors = <<>> /\ cats = <<>>
        /\ mapsets = {} /\ wrasters = {}
        /\ classifications = <<>>
        /\ \A c \in Cats : proc[c] = "none"
        /\ Len(calls) <= 1
        /\ \A k \in 1 .. Len(calls) :
              /\ calls[k].module = "r.learn.predict"
              /\ calls[k].output = OutputMap
              /\ calls[k].region = FullRegion
        /\ exit_code = 0 => Len(calls) = 1

\* a negative n_jobs and an explicit grid: one direct call, then exit 0
C4_Witness ==
    /\ pc = "exited"
    /\ exit_code = 0
    /\ n_jobs < 0
    /\ options["grid"] # <<>>
    /\ options["grid"][1] * options["grid"][2] > 1
    /\ Len(calls) = 1

\* ------------------------------------------------------------------- C5
\* the number of cells the command line asks for
ExpectedCells ==
    IF options["grid"] # <<>>
    THEN options["grid"][1] * options["grid"][2]
    ELSE n_jobs * n_jobs

C6_MergeAfterJobs ==
    (pc \in {"copy", "patch"} \/ CopyCalls # <<>> \/ CombineCalls # <<>>) =>
        /\ ActiveJobs = {}
        /\ \A i \in 1 .. Len(cats) : Ended(proc[cats[i]])

\* the parent is at the combination after a batch that was only partly
\* filled, which queue.wait() of line 222 has waited for
C6_Witness ==
    /\ pc = "patch"
    /\ CopyCalls # <<>>
    /\ Len(cats) % n_jobs # 0
    /\ \A i \in 1 .. Len(cats) : Ended(proc[cats[i]])

\* ------------------------------------------------------------------- C7
\* C7: the input of every combination is the tiles of all cells in ascending
\* order of the cell's cat, whatever the order in which the workers ended.
C7_SortedInput ==
    \A k \in 1 .. Len(CombineCalls) :
       LET input == CombineCalls[k].input
       IN  /\ Len(input) = Len(cats)
           /\ \A i, j \in 1 .. Len(input) : i < j => input[i][2] < input[j][2]
           /\ input = [i \in 1 .. ExpectedCells |-> tmp_output(i)]

\* three or more tiles have been combined
C7_Witness ==
    /\ CombineCalls # <<>>
    /\ Len(CombineCalls[1].input) >= 3

\* ------------------------------------------------------------------- C8
\* C8: a run of the parallel path that exits with status 0 has, with one tile,
\* called neither r.patch nor r.buildvrt and copied the tile to the output
\* name as its last call, with or without flag v; with two or more tiles it
\* has called exactly one of them, r.buildvrt with flag v and r.patch without.
\* In no state has the parent combined twice, or combined one tile.
C8_SingleTileCopy ==
    /\ Len(CombineCalls) <= 1
    /\ Len(cats) <= 1 => CombineCalls = <<>>
    /\ (GridMade /\ exit_code = 0) =>
          IF Len(classifications) = 1
          THEN /\ CombineCalls = <<>>
               /\ calls[Len(calls)].module = "g.copy"
               /\ calls[Len(calls)].input = <<tmp_output(cats[1])>>
               /\ calls[Len(calls)].output = OutputMap
          ELSE /\ Len(classifications) >= 2
               /\ Len(CombineCalls) = 1
               /\ CombineCalls[1].module =
                     (IF "v" \in flags THEN "r.buildvrt" ELSE "r.patch")
               /\ CombineCalls[1].output = OutputMap

\* one tile with flag v: copied, exit 0
C8_Witness ==
    /\ pc = "exited"
    /\ exit_code = 0
    /\ Len(classifications) = 1
    /\ "v" \in flags
    /\ OutputMap \in rasters

\* ------------------------------------------------------------------- C9
\* C9: a grid without cells makes no output and ends the run with a non-zero
\* status: from the merge with no tile the parent goes to its atexit handler
\* with status 1, the process exits only from that handler, and the handler
\* has then visited every entry of the registry unless a removal failed.
C9_NoOutput ==
    [](GridMade /\ cats = <<>> =>
          /\ exit_code # 0
          /\ OutputMap \notin rasters
          /\ CopyCalls = <<>>
          /\ CombineCalls = <<>>)

C9_SweepRuns ==
    /\ [][(pc = "patch" /\ classifications = <<>>) =>
             (pc' = "cleanup" /\ idx' = 1 /\ exit_code' = 1)]_vars
    /\ [][pc' = "exited" => pc \in {"cleanup", "exited"}]_vars
    /\ [](pc = "exited" =>
             /\ \A i \in 1 .. Len(CleanupList) : i < idx => ~Exists(CleanupList[i])
             /\ idx <= Len(CleanupList) => Exists(CleanupList[idx]))

C9_EmptyMerge == C9_NoOutput /\ C9_SweepRuns

\* the merge had no tile: exit 1, and the sweep has removed the grid
C9_Witness ==
    /\ pc = "exited"
    /\ exit_code = 1
    /\ GridMade
    /\ cats = <<>>
    /\ gisrc = start_cur_mapset
    /\ grid \notin vectors

\* ------------------------------------------------------------------ C10
\* C10: with flag v no tile is ever entered in rm_rasters, and every tile the
\* parent has copied into its mapset, and every tile the output refers to, is
\* in the parent's mapset in every later state, also after the sweep.
C10_VirtualKeepsTiles ==
    "v" \in flags =>
        /\ rm_rasters = <<>>
        /\ \A k \in 1 .. Len(CopyCalls) :
              CopyCalls[k].output # OutputMap => CopyCalls[k].output \in rasters
        /\ \A k \in 1 .. Len(CombineCalls) :
              \A i \in 1 .. Len(CombineCalls[k].input) :
                 CombineCalls[k].input[i] \in rasters

\* the process has exited with status 0 after r.buildvrt
C10_Witness ==
    /\ pc = "exited"
    /\ exit_code = 0
    /\ "v" \in flags
    /\ CombineCalls # <<>>
    /\ CombineCalls[1].module = "r.buildvrt"

\* -------------------------------------------------------------------- C11
\* C11: the sweep runs on every way the parent ends once main has started: the
\* step that fixes the exit status, the return 0 as much as a fatal error or a
\* failed step, hands over to cleanup() at its first entry, and the process
\* exits from cleanup() only. When no removal failed, so that the sweep went
\* past its last entry, none of the tracked entries exists afterwards.
C11_SweepOnEveryExit ==
    /\ [][(exit_code = -1 /\ exit_code' # -1) => (pc' = "cleanup" /\ idx' = 1)]_vars
    /\ [][(pc # "exited" /\ pc' = "exited") => pc = "cleanup"]_vars
    /\ [](pc = "exited" => exit_code # -1)
    /\ []((pc = "exited" /\ idx > Len(CleanupList))
            => \A i \in 1 .. Len(CleanupList) : ~Exists(CleanupList[i]))

\* the parent has exited with status 1 after a worker failed, and the sweep has
\* removed the tracked grid
C11_Witness ==
    /\ pc = "exited"
    /\ exit_code = 1
    /\ FailedJobs # {}
    /\ Len(CleanupList) > 0
    /\ idx > Len(CleanupList)
    /\ grid \notin vectors

\* -------------------------------------------------------------------- C12
\* C12: when the parent has exited, on whatever path, with no worker left
\* running and no removal of the sweep failed, no mapset of a cell it
\* dispatched exists any more.
C12_Original ==
    (pc = "exited" /\ ActiveJobs = {} /\ idx > Len(CleanupList))
       => \A c \in Dispatched : new_mapset(c) \notin mapsets

\* -------------------------------------------------------------------- C13
\* C13: a worker whose mapset existed before it started works, once its
\* allocation has succeeded, in a mapset that holds nothing of the old one.
C13_Original ==
    \A c \in Cats :
       proc[c] \in {"verified", "ok"}
          => <<StaleMap, new_mapset(c)>> \notin wrasters

\* -------------------------------------------------------------------- C14
\* C14: a worker whose session, after g.mapset, is not in the requested mapset
\* fails at the check: that step changes no region, no raster and no mapset,
\* a failed worker stays failed, and only a worker whose session is in the
\* requested mapset gets past the check to g.region, g.copy and r.learn.predict.
C14_MismatchIsFatal ==
    /\ [][\A c \in Cats :
             (proc[c] = "allocated" /\ wgisrc[c] # new_mapset(c)
                /\ proc'[c] # proc[c])
                => /\ proc'[c] = "failed"
                   /\ wind' = wind
                   /\ wrasters' = wrasters
                   /\ mapsets' = mapsets]_vars
    /\ [][\A c \in Cats : proc[c] = "failed" => proc'[c] = "failed"]_vars
    /\ [](\A c \in Cats : proc[c] = "verified" => wgisrc[c] = new_mapset(c))
    /\ [](\A c \in Cats :
             proc[c] = "failed"
                => \A m \in AllMapsets : <<tmp_output(c), m>> \notin wrasters)

\* a worker has failed at the check: its mapset was created, with the default
\* region still, its session is in the parent's mapset, whose region is as it
\* was, and no raster of the cell exists
C14_Witness ==
    \E c \in Cats :
       /\ proc[c] = "failed"
       /\ new_mapset(c) \in mapsets
       /\ wind[new_mapset(c)] = DefaultRegion
       /\ wgisrc[c] = UserMapset
       /\ wind[UserMapset] = FullRegion
       /\ \A m \in AllMapsets : <<tmp_output(c), m>> \notin wrasters

\* -------------------------------------------------------------------- C15
\* C15: the r.learn.predict call of every worker that has run it has the flags
\* main selected for r.learn.predict, those the direct call has.
C15_Original ==
    \A c \in Cats : proc[c] = "ok" => WorkerCall(c).flags = flags_str

\* -------------------------------------------------------------------- C16
\* C16: once the options are read, the limit is the one computed from the
\* option nprocs: the cores less one for -2, else the value given.
C16_Original ==
    ("nprocs" \in DOMAIN options /\ pc # "main" /\ options.nprocs \in {-2, 1, 2})
       => \E nprocs_real \in 1 .. MaxCpu :
             /\ n_jobs = set_test_nprocs(options.nprocs, nprocs_real)
             /\ (options.nprocs # -2 => n_jobs = options.nprocs)

\* -------------------------------------------------------------------- C17
\* C17: a removal that fails does not end the sweep: when the process has
\* exited, the sweep has visited every entry of the lists.
C17_Original ==
    pc = "exited" => idx >= Len(CleanupList)

\* -------------------------------------------------------------------- C18
\* C18: without the v flag, after an exit whose sweep had no failing removal,
\* neither the grid nor a tile copied into the parent's mapset exists.
C18_Original ==
    (pc = "exited" /\ "v" \notin flags /\ idx > Len(CleanupList))
       => /\ grid \notin vectors
          /\ \A c \in Cats : tmp_output(c) \notin rasters

\* -------------------------------------------------------------------- C19
\* C19: a step of a running worker leaves the mapset of the parent's session
\* and the mapset of every other worker's session as they were.
C19_PrivateSession ==
    [][\A c \in Cats :
          (Active(proc[c]) /\ proc'[c] # proc[c])
             => /\ gisrc' = gisrc
                /\ \A d \in Cats \ {c} : wgisrc'[d] = wgisrc[d]]_vars

\* two workers are in their mapsets at the same time and the parent's session
\* is still in the mapset main started in
C19_Witness ==
    /\ pc \in {"put", "put_wait", "wait"}
    /\ gisrc = start_cur_mapset
    /\ \E c, d \in Cats :
          /\ c # d
          /\ proc[c] = "verified" /\ wgisrc[c] = new_mapset(c)
          /\ proc[d] = "verified" /\ wgisrc[d] = new_mapset(d)

\* -------------------------------------------------------------------- C20
\* C20: while main dispatches and waits, the mapset of a worker that has
\* finished still holds the worker's tile, whatever other runs do in the
\* location.
C20_Original ==
    \A c \in Cats :
       (proc[c] = "ok" /\ pc \in {"put", "put_wait", "wait"})
          => /\ new_mapset(c) \in mapsets
             /\ <<tmp_output(c), new_mapset(c)>> \in wrasters

====
